---- MODULE Spec2Model ----
(***************************************************************************)
(* SOPS encryption generator (src/src/main.rs): main() imports the        *)
(* private key, collects and imports the public keys, finds the secret    *)
(* files and re-encrypts each one (sops -d, then sops -e -i).             *)
(* External tools (gpg, sops), the file system and the environment are    *)
(* nondeterministic: each call picks one of the results the call can have. *)
(***************************************************************************)
EXTENDS Integers, Sequences, FiniteSets, TLC

\* ---------------------------------------------------------------- bounds
MaxUsers == 2        \* users in an INPUT_PUBLIC_KEYS roster
MaxRosterKeys == 2   \* keys of a roster, all users together
MaxEntries == 2      \* paths the glob pattern matches

\* ------------------------------------------------------- values and types
Absent == "<unset>"  \* an environment variable that is not set

\* Base64 strings an input can hold: two keys, a string that is no base64,
\* and the base64 of bytes that are no UTF-8.
KEY_A_B64 == "S0VZX0E="
KEY_B_B64 == "S0VZX0I="
PRIV_B64 == "UFJJVg=="
NOT_BASE64 == "!!"
NON_UTF8_B64 == "//4="

EncodedKeys == {KEY_A_B64, KEY_B_B64, NOT_BASE64, NON_UTF8_B64}
PrivateKeyInputs == {Absent, PRIV_B64, NOT_BASE64, NON_UTF8_B64}
FluxKeyInputs == {Absent, ""} \cup EncodedKeys

DEFAULT_PATTERN == "**/application.secrets.env"
BAD_PATTERN == "secrets/***"
PatternInputs == {Absent, BAD_PATTERN}

Ok(v) == [ok |-> TRUE, val |-> v]
Err(msg) == [ok |-> FALSE, val |-> msg]

\* general_purpose::STANDARD.decode: the bytes, or an error
Base64Decode(s) ==
    CASE s = "" -> Ok("")
      [] s = KEY_A_B64 -> Ok("KEY_A")
      [] s = KEY_B_B64 -> Ok("KEY_B")
      [] s = PRIV_B64 -> Ok("PRIV")
      [] s = NON_UTF8_B64 -> Ok("<ff fe>")
      [] OTHER -> Err("invalid base64")

\* String::from_utf8: the text, or an error
FromUtf8(bytes) ==
    IF bytes = "<ff fe>" THEN Err("invalid utf-8") ELSE Ok(bytes)

\* base64 decode, then UTF-8, each with its own error context (lines 79-83
\* for a public key, 167-171 for the private key)
DecodeKey(s, ctxDecode, ctxUtf8) ==
    LET b == Base64Decode(s) IN
    IF ~b.ok THEN Err(ctxDecode)
    ELSE LET t == FromUtf8(b.val) IN
         IF ~t.ok THEN Err(ctxUtf8) ELSE Ok(t.val)

\* ------------------------------------------------------------ the roster
\* The text of INPUT_PUBLIC_KEYS, by its JSON structure:
\*   kind "empty"      the empty string
\*   kind "garbage"    not JSON
\*   kind "no_users"   a JSON object without a "users" member
\*   kind "not_array"  "users" is no array
\*   kind "object"     {"users": [...]}, each user an object that has or
\*                     lacks "login" and "gpg_keys_base64"
JsonText(kind, users) == [kind |-> kind, users |-> users]
UserJson(l, k, keys) == [has_login |-> l, has_keys |-> k, keys |-> keys]

DEFAULT_ROSTER == JsonText("object", <<>>)   \* "{\"users\":[]}"
EMPTY_STRING == JsonText("empty", <<>>)

RECURSIVE SumTo(_, _)
SumTo(f, n) == IF n = 0 THEN 0 ELSE f[n] + SumTo(f, n - 1)

KeySeqs(n) == UNION {[1..m -> EncodedKeys] : m \in 0..n}

\* the users of a well-formed roster: the keys `flat` cut into users of
\* sizes[1], sizes[2], ... keys
CutUsers(flat, sizes) ==
    [i \in 1..Len(sizes) |->
        UserJson(TRUE, TRUE,
                 SubSeq(flat, SumTo(sizes, i - 1) + 1, SumTo(sizes, i)))]

WellFormedRosters ==
    {JsonText("object", CutUsers(flat, sizes)) :
        <<flat, sizes>> \in
            {fs \in UNION {{<<f, s>> : s \in UNION {[1..n -> 0..Len(f)] : n \in 0..MaxUsers}}
                           : f \in KeySeqs(MaxRosterKeys)} :
                SumTo(fs[2], Len(fs[2])) = Len(fs[1])}}

\* a well-formed roster with one user that lacks "login" or "gpg_keys_base64"
Damage(r, j, what) ==
    JsonText("object",
        [i \in 1..Len(r.users) |->
            IF i # j THEN r.users[i]
            ELSE IF what = "login" THEN UserJson(FALSE, TRUE, r.users[i].keys)
            ELSE UserJson(TRUE, FALSE, <<>>)])

MalformedRosters ==
    {JsonText("garbage", <<>>), JsonText("no_users", <<>>), JsonText("not_array", <<>>)}
    \cup UNION {{Damage(r, j, w) : j \in 1..Len(r.users), w \in {"login", "keys"}}
                : r \in WellFormedRosters}

RosterInputs == WellFormedRosters \cup MalformedRosters \cup {EMPTY_STRING}

\* INPUT_PUBLIC_KEYS: not set, or set to one of the texts
RosterEnv == {[set |-> FALSE, text |-> EMPTY_STRING]}
             \cup {[set |-> TRUE, text |-> r] : r \in RosterInputs}

\* env::var(name).unwrap_or_else(|_| default)
UnwrapOr(v, default) == IF v = Absent THEN default ELSE v

\* [faulty variant of FromStr] members a user lacks are defaulted instead of refused
FromStrLenient(json) ==
    IF json.kind = "object" THEN Ok(json.users)
    ELSE Err("Failed to parse users data")

\* serde_json::from_str::<UsersData>: the users, or an error
FromStr(json) ==
    IF /\ json.kind = "object"
       /\ \A i \in 1..Len(json.users) : json.users[i].has_login /\ json.users[i].has_keys
    THEN Ok(json.users)
    ELSE Err("Failed to parse users data")

\* for user in users.users { keys.extend(user.gpg_keys_base64) }
RECURSIVE ExtendAll(_, _)
ExtendAll(keys, users) ==
    IF users = <<>> THEN keys
    ELSE ExtendAll(keys \o Head(users).keys, Tail(users))

\* [faulty variant of collect_public_keys] a Flux key some user holds is not added again
collect_public_keys_dedup(users_data, flux_key_arg) ==
    LET parsed == IF users_data.kind # "empty" THEN FromStr(users_data) ELSE Ok(<<>>) IN
    IF ~parsed.ok THEN Err(parsed.val)
    ELSE LET keys == ExtendAll(<<>>, parsed.val) IN
         Ok(IF flux_key_arg # "" /\ \A i \in 1..Len(keys) : keys[i] # flux_key_arg
            THEN Append(keys, flux_key_arg) ELSE keys)

\* [faulty variant of collect_public_keys] the empty string is parsed like any text
collect_public_keys_parse_always(users_data, flux_key_arg) ==
    LET parsed == FromStr(users_data) IN
    IF ~parsed.ok THEN Err(parsed.val)
    ELSE LET keys == ExtendAll(<<>>, parsed.val) IN
         Ok(IF flux_key_arg # "" THEN Append(keys, flux_key_arg) ELSE keys)

\* collect_public_keys(users_data, flux_key)
collect_public_keys(users_data, flux_key_arg) ==
    LET parsed == IF users_data.kind # "empty" THEN FromStr(users_data) ELSE Ok(<<>>) IN
    IF ~parsed.ok THEN Err(parsed.val)
    ELSE LET keys == ExtendAll(<<>>, parsed.val) IN
         Ok(IF flux_key_arg # "" THEN Append(keys, flux_key_arg) ELSE keys)

\* ------------------------------------------------------------- the state
VARIABLES
    pc,               \* where main() is
    err,              \* the error main() returned with ("" when none)
    exit_code,        \* the process's exit status, once pc = "exit"
    private_key,      \* INPUT_PRIVATE_KEY
    public_keys_json, \* INPUT_PUBLIC_KEYS, or its default
    flux_key,         \* INPUT_FLUX_KEY, or ""
    secrets_pattern,  \* INPUT_SECRETS_PATTERN, or its default
    key_str,          \* the decoded key about to be written and imported
    import_output,    \* the exit status of the gpg --import that just ran
    gpg_home_files,   \* the files main() wrote into the GPG home: name -> text
    trust_store,      \* the keys gpg imported into the GPG home
    public_keys,      \* the result of collect_public_keys
    idx,              \* import_gpg_keys: the index of the key in hand
    warnings,         \* import_gpg_keys: the indices it warned about
    glob_entries,     \* what the pattern matched: "file", "dir" or "error" each
    secret_files,     \* the result of find_secret_files (indices into glob_entries)
    file_i,           \* main's loop: position in secret_files (from 1)
    status,           \* per secret file: its state in the re-encryption cycle
    disk,             \* per secret file: its content on disk
    sops_runs,        \* per secret file: how often sops -d and sops -e -i were
                      \* run, and what each came to
    result,           \* what reencrypt_file returned for the file in hand
    success_count,
    error_count

vars == <<pc, err, exit_code, private_key, public_keys_json, flux_key,
          secrets_pattern, key_str, import_output, gpg_home_files, trust_store,
          public_keys, idx, warnings, glob_entries, secret_files, file_i, status,
          disk, sops_runs, result, success_count, error_count>>

inputVars == <<private_key, public_keys_json, flux_key, secrets_pattern>>
keyVars == <<key_str, import_output, gpg_home_files, trust_store, public_keys,
             idx, warnings>>
fileVars == <<glob_entries, secret_files, file_i, status, disk, sops_runs,
              result, success_count, error_count>>

NoFiles == [p \in {} |-> "Pending"]

Init ==
    /\ pc = "start"
    /\ err = ""
    /\ exit_code = 0
    /\ private_key = Absent
    /\ public_keys_json = EMPTY_STRING
    /\ flux_key = ""
    /\ secrets_pattern = ""
    /\ key_str = ""
    /\ import_output = "none"
    /\ gpg_home_files = [n \in {} |-> ""]
    /\ trust_store = {}
    /\ public_keys = <<>>
    /\ idx = 0
    /\ warnings = {}
    /\ glob_entries = <<>>
    /\ secret_files = <<>>
    /\ file_i = 0
    /\ status = NoFiles
    /\ disk = NoFiles
    /\ sops_runs = NoFiles
    /\ result = "none"
    /\ success_count = 0
    /\ error_count = 0

\* main() returns Err(msg): the runtime prints it and exits with status 1
Fail(msg) ==
    /\ pc' = "exit"
    /\ err' = msg
    /\ exit_code' = 1

\* a step that neither ends the run nor fails
Goto(next) ==
    /\ pc' = next
    /\ UNCHANGED <<err, exit_code>>

\* fs::write(path, text) succeeded
WriteFile(name, text) ==
    [n \in DOMAIN gpg_home_files \cup {name} |->
        IF n = name THEN text ELSE gpg_home_files[n]]

\* line 147: INPUT_PRIVATE_KEY is required
ReadPrivateKey ==
    /\ pc = "start"
    /\ \E v \in PrivateKeyInputs :
        IF v = Absent
        THEN /\ Fail("INPUT_PRIVATE_KEY environment variable required")
             /\ UNCHANGED private_key
        ELSE /\ private_key' = v
             /\ Goto("read_inputs")
    /\ UNCHANGED <<public_keys_json, flux_key, secrets_pattern>>
    /\ UNCHANGED keyVars
    /\ UNCHANGED fileVars

\* lines 149-158: the optional inputs and their defaults
ReadInputs ==
    /\ pc = "read_inputs"
    /\ \E r \in RosterEnv :
        public_keys_json' = IF r.set THEN r.text ELSE DEFAULT_ROSTER
    /\ \E f \in FluxKeyInputs :
        flux_key' = UnwrapOr(f, "")
    /\ \E p \in PatternInputs :
        secrets_pattern' = UnwrapOr(p, DEFAULT_PATTERN)
    /\ Goto("create_dir")
    /\ UNCHANGED private_key
    /\ UNCHANGED keyVars
    /\ UNCHANGED fileVars

\* lines 161-162: fs::create_dir_all(&gpg_home)
CreateGpgHome ==
    /\ pc = "create_dir"
    /\ \E created \in BOOLEAN :
        IF created THEN Goto("decode_private")
        ELSE Fail("Failed to create GPG home directory")
    /\ UNCHANGED inputVars
    /\ UNCHANGED keyVars
    /\ UNCHANGED fileVars

\* lines 167-171: decode the private key
DecodePrivateKey ==
    /\ pc = "decode_private"
    /\ LET d == DecodeKey(private_key, "Failed to decode private key",
                          "Failed to convert private key to string") IN
        IF d.ok
        THEN /\ key_str' = d.val
             /\ Goto("write_private")
        ELSE /\ Fail(d.val)
             /\ UNCHANGED key_str
    /\ UNCHANGED inputVars
    /\ UNCHANGED <<import_output, gpg_home_files, trust_store, public_keys, idx,
                   warnings>>
    /\ UNCHANGED fileVars

\* lines 173-175: write it to <gpg_home>/private_key.asc
WritePrivateKey ==
    /\ pc = "write_private"
    /\ \E written \in BOOLEAN :
        IF written
        THEN /\ gpg_home_files' = WriteFile("private_key.asc", key_str)
             /\ Goto("import_private")
        ELSE /\ Fail("Failed to write private key")
             /\ UNCHANGED gpg_home_files
    /\ UNCHANGED inputVars
    /\ UNCHANGED <<key_str, import_output, trust_store, public_keys, idx, warnings>>
    /\ UNCHANGED fileVars

\* What a Command::output() call can come to: the tool could not be run, it
\* ran and exited with a failure status, or it ran and succeeded.
ToolOutcomes == {"spawn_error", "failure", "success"}

\* gpg --import <file> ran: a key it accepts is in the trust store from then on
GpgImport(name, o) ==
    IF o = "success" THEN trust_store \cup {gpg_home_files[name]} ELSE trust_store

\* lines 177-184: gpg --import private_key.asc; not being able to run it is fatal
ImportPrivateKey ==
    /\ pc = "import_private"
    /\ \E o \in ToolOutcomes :
        IF o = "spawn_error"
        THEN /\ Fail("Failed to import private key")
             /\ UNCHANGED <<trust_store, import_output>>
        ELSE /\ trust_store' = GpgImport("private_key.asc", o)
             /\ import_output' = o
             /\ Goto("check_private")
    /\ UNCHANGED inputVars
    /\ UNCHANGED <<key_str, gpg_home_files, public_keys, idx, warnings>>
    /\ UNCHANGED fileVars

\* [faulty variant of CheckPrivateImport] a rejected private key is only warned about
CheckPrivateImportWarns ==
    /\ pc = "check_private"
    /\ Goto("collect")
    /\ import_output' = "none"
    /\ UNCHANGED inputVars
    /\ UNCHANGED <<key_str, gpg_home_files, trust_store, public_keys, idx, warnings>>
    /\ UNCHANGED fileVars

\* lines 186-189: a failure status of the private key's import is fatal
CheckPrivateImport ==
    /\ pc = "check_private"
    /\ IF import_output # "success"
       THEN Fail("Failed to import private key: <stderr>")
       ELSE Goto("collect")
    /\ import_output' = "none"
    /\ UNCHANGED inputVars
    /\ UNCHANGED <<key_str, gpg_home_files, trust_store, public_keys, idx, warnings>>
    /\ UNCHANGED fileVars

\* lines 191-199: collect the public keys; import them when there are any
CollectPublicKeys ==
    /\ pc = "collect"
    /\ LET c == collect_public_keys(public_keys_json, flux_key) IN
        IF ~c.ok
        THEN /\ Fail(c.val)
             /\ UNCHANGED public_keys
        ELSE /\ public_keys' = c.val
             /\ Goto(IF c.val # <<>> THEN "key_decode" ELSE "keys_done")
    /\ UNCHANGED inputVars
    /\ UNCHANGED <<key_str, import_output, gpg_home_files, trust_store, idx,
                   warnings>>
    /\ UNCHANGED fileVars

\* import_gpg_keys, line 86: <gpg_home>/key_<idx>.asc
KeyFileName(i) == "key_" \o ToString(i) \o ".asc"

\* import_gpg_keys, lines 77 and 104-106: the next key, or Ok(()) back in main
AfterKey(i) == IF i < Len(public_keys) THEN "key_decode" ELSE "keys_done"

\* import_gpg_keys, lines 79-83: decode key idx; an error is returned with `?`
DecodeKeyStep ==
    /\ pc = "key_decode"
    /\ LET d == DecodeKey(public_keys[idx + 1], "Failed to decode GPG key",
                          "Failed to convert GPG key to string") IN
        IF d.ok
        THEN /\ key_str' = d.val
             /\ Goto("key_write")
        ELSE /\ Fail(d.val)
             /\ UNCHANGED key_str
    /\ UNCHANGED inputVars
    /\ UNCHANGED <<import_output, gpg_home_files, trust_store, public_keys, idx,
                   warnings>>
    /\ UNCHANGED fileVars

\* [faulty variant of WriteKeyStep] a key file that cannot be written undoes the
\* imports made so far
WriteKeyStepRollsBack ==
    /\ pc = "key_write"
    /\ \E written \in BOOLEAN :
        IF written
        THEN /\ gpg_home_files' = WriteFile(KeyFileName(idx), key_str)
             /\ Goto("key_import")
             /\ UNCHANGED trust_store
        ELSE /\ Fail("Failed to write GPG key")
             /\ trust_store' = {}
             /\ UNCHANGED gpg_home_files
    /\ UNCHANGED inputVars
    /\ UNCHANGED <<key_str, import_output, public_keys, idx, warnings>>
    /\ UNCHANGED fileVars

\* import_gpg_keys, lines 85-88: write key idx to its file
WriteKeyStep ==
    /\ pc = "key_write"
    /\ \E written \in BOOLEAN :
        IF written
        THEN /\ gpg_home_files' = WriteFile(KeyFileName(idx), key_str)
             /\ Goto("key_import")
        ELSE /\ Fail("Failed to write GPG key")
             /\ UNCHANGED gpg_home_files
    /\ UNCHANGED inputVars
    /\ UNCHANGED <<key_str, import_output, trust_store, public_keys, idx, warnings>>
    /\ UNCHANGED fileVars

\* [faulty variant of ImportKey] a key the trust store holds already is an error
ImportKeyRejectsDuplicate(o) ==
    IF o = "spawn_error" \/ key_str \in trust_store
    THEN /\ Fail("Failed to import GPG key")
         /\ UNCHANGED <<trust_store, import_output>>
    ELSE /\ trust_store' = GpgImport(KeyFileName(idx), o)
         /\ import_output' = o
         /\ Goto("key_check")

\* import_gpg_keys, lines 90-98: gpg --import key_<idx>.asc came to o; not being
\* able to run it is returned with `?`
ImportKey(o) ==
    IF o = "spawn_error"
    THEN /\ Fail("Failed to import GPG key")
         /\ UNCHANGED <<trust_store, import_output>>
    ELSE /\ trust_store' = GpgImport(KeyFileName(idx), o)
         /\ import_output' = o
         /\ Goto("key_check")

ImportKeyStep ==
    /\ pc = "key_import"
    /\ \E o \in ToolOutcomes : ImportKey(o)
    /\ UNCHANGED inputVars
    /\ UNCHANGED <<key_str, gpg_home_files, public_keys, idx, warnings>>
    /\ UNCHANGED fileVars

\* [faulty variant of CheckKeyImport] a key gpg rejects ends the import with an error
CheckKeyImportFatal ==
    /\ pc = "key_check"
    /\ IF import_output # "success"
       THEN /\ Fail("Failed to import GPG key: <stderr>")
            /\ UNCHANGED idx
       ELSE /\ idx' = idx + 1
            /\ Goto(AfterKey(idx + 1))
    /\ import_output' = "none"
    /\ UNCHANGED inputVars
    /\ UNCHANGED <<key_str, gpg_home_files, trust_store, public_keys, warnings>>
    /\ UNCHANGED fileVars

\* import_gpg_keys, lines 100-104: a failure status is a warning; either way
\* the loop goes on with the next key
CheckKeyImport ==
    /\ pc = "key_check"
    /\ warnings' = IF import_output # "success" THEN warnings \cup {idx} ELSE warnings
    /\ idx' = idx + 1
    /\ Goto(AfterKey(idx + 1))
    /\ import_output' = "none"
    /\ UNCHANGED inputVars
    /\ UNCHANGED <<key_str, gpg_home_files, trust_store, public_keys>>
    /\ UNCHANGED fileVars

\* lines 199-202: back in main with the keys imported. main reads none of the
\* key phase's values again (the roster, the Flux key, the key list, the
\* importer's locals): the model drops them here.
KeysDone ==
    /\ pc = "keys_done"
    /\ public_keys_json' = EMPTY_STRING
    /\ flux_key' = ""
    /\ public_keys' = <<>>
    /\ idx' = 0
    /\ key_str' = ""
    /\ warnings' = {}
    /\ Goto("find_files")
    /\ UNCHANGED <<private_key, secrets_pattern, import_output, gpg_home_files,
                   trust_store>>
    /\ UNCHANGED fileVars

\* glob(pattern): a pattern error, or the iterator over the matches
GlobPattern(pattern) ==
    IF pattern = BAD_PATTERN THEN Err("Failed to read glob pattern") ELSE Ok(pattern)

EntryKinds == {"file", "dir", "error"}

\* [faulty variant of SelectFiles] the enumeration ends at the first entry error
SelectFilesUntilError(entries) ==
    SelectSeq([i \in 1..Len(entries) |-> i],
              LAMBDA i : entries[i] = "file" /\ \A j \in 1..i : entries[j] # "error")

\* find_secret_files, lines 39-50: the matches that are files, in glob's order
SelectFiles(entries) == SelectSeq([i \in 1..Len(entries) |-> i],
                                  LAMBDA i : entries[i] = "file")

Paths(files) == {files[i] : i \in 1..Len(files)}

\* [faulty variant of NoSecretFiles] finding no secret file is reported as a failure
NoSecretFilesFails ==
    /\ pc' = "exit"
    /\ exit_code' = 1
    /\ UNCHANGED <<err, file_i>>

\* lines 206-209: no secret file is a success: return Ok(())
NoSecretFiles ==
    /\ pc' = "exit"
    /\ exit_code' = 0
    /\ UNCHANGED <<err, file_i>>

NotRun == [decrypt |-> 0, encrypt |-> 0,
           decrypt_output |-> "none", encrypt_output |-> "none"]

\* lines 201-209: find the secret files
FindSecretFiles ==
    /\ pc = "find_files"
    /\ LET g == GlobPattern(secrets_pattern) IN
        IF ~g.ok
        THEN /\ Fail(g.val)
             /\ UNCHANGED <<glob_entries, secret_files, file_i, status, disk, sops_runs>>
        ELSE \E entries \in UNION {[1..n -> EntryKinds] : n \in 0..MaxEntries} :
             LET files == SelectFiles(entries) IN
             /\ glob_entries' = entries
             /\ secret_files' = files
             /\ status' = [p \in Paths(files) |-> "Pending"]
             /\ disk' = [p \in Paths(files) |-> "original"]
             /\ sops_runs' = [p \in Paths(files) |-> NotRun]
             /\ IF files = <<>>
                THEN NoSecretFiles
                ELSE /\ file_i' = 1
                     /\ Goto("reencrypt")
    /\ UNCHANGED inputVars
    /\ UNCHANGED keyVars
    /\ UNCHANGED <<result, success_count, error_count>>

\* [faulty variant of File] the loop goes through the list from its end
FileFromLast == secret_files[Len(secret_files) + 1 - file_i]

\* the file main's loop is at
File == secret_files[file_i]

Set(f, p, v) == [f EXCEPT ![p] = v]

\* reencrypt_file, lines 113-117: run sops -d on the file
InvokeDecrypt ==
    /\ pc = "reencrypt"
    /\ status' = Set(status, File, "Verifying")
    /\ sops_runs' = [sops_runs EXCEPT ![File].decrypt = @ + 1]
    /\ Goto("decrypt")
    /\ UNCHANGED inputVars
    /\ UNCHANGED keyVars
    /\ UNCHANGED <<glob_entries, secret_files, file_i, disk, result,
                   success_count, error_count>>

\* [faulty variant of DecryptOk] the exit status of sops -d is not looked at
DecryptOkStatusIgnored(o) == o # "spawn_error"

\* reencrypt_file, lines 118-123: sops -d could be run and its status is success
DecryptOk(o) == o = "success"

\* [faulty variant of DecryptReturns] sops -d is run again until it succeeds
DecryptReturnsRetries ==
    /\ pc = "decrypt"
    /\ \E o \in ToolOutcomes :
        /\ sops_runs' = [sops_runs EXCEPT ![File].decrypt_output = o]
        /\ IF DecryptOk(o)
           THEN /\ status' = Set(status, File, "Verified")
                /\ Goto("verified")
           ELSE /\ UNCHANGED status
                /\ Goto("decrypt")
    /\ UNCHANGED inputVars
    /\ UNCHANGED keyVars
    /\ UNCHANGED <<glob_entries, secret_files, file_i, disk, result,
                   success_count, error_count>>

\* reencrypt_file, lines 118-123: sops -d is back; unless it succeeded,
\* reencrypt_file returns Err
DecryptReturns ==
    /\ pc = "decrypt"
    /\ \E o \in ToolOutcomes :
        /\ sops_runs' = [sops_runs EXCEPT ![File].decrypt_output = o]
        /\ IF DecryptOk(o)
           THEN /\ status' = Set(status, File, "Verified")
                /\ Goto("verified")
                /\ UNCHANGED result
           ELSE /\ status' = Set(status, File, "VerifyFailed")
                /\ result' = "Err"
                /\ Goto("match")
    /\ UNCHANGED inputVars
    /\ UNCHANGED keyVars
    /\ UNCHANGED <<glob_entries, secret_files, file_i, disk,
                   success_count, error_count>>

\* reencrypt_file, lines 125-132: run sops -e -i on the file
InvokeEncrypt ==
    /\ pc = "verified"
    /\ status' = Set(status, File, "Committing")
    /\ sops_runs' = [sops_runs EXCEPT ![File].encrypt = @ + 1]
    /\ Goto("encrypt")
    /\ UNCHANGED inputVars
    /\ UNCHANGED keyVars
    /\ UNCHANGED <<glob_entries, secret_files, file_i, disk, result,
                   success_count, error_count>>

\* What sops -e -i leaves in the file: the re-encrypted file when it succeeds,
\* the file as it was when sops could not be run, and whatever sops left there
\* when it failed.
EncryptEffect(o) ==
    CASE o = "success" -> {"reencrypted"}
      [] o = "spawn_error" -> {"original"}
      [] o = "failure" -> {"original", "engine_defined"}

\* reencrypt_file, lines 133-138: sops -e -i could be run and its status is success
EncryptOk(o) == o = "success"

\* reencrypt_file, lines 133-141: sops -e -i is back; reencrypt_file returns
\* Ok when it succeeded and Err otherwise
EncryptReturns ==
    /\ pc = "encrypt"
    /\ \E o \in ToolOutcomes :
        /\ sops_runs' = [sops_runs EXCEPT ![File].encrypt_output = o]
        /\ \E left \in EncryptEffect(o) : disk' = Set(disk, File, left)
        /\ IF EncryptOk(o)
           THEN /\ status' = Set(status, File, "Committed")
                /\ result' = "Ok"
           ELSE /\ status' = Set(status, File, "CommitFailed")
                /\ result' = "Err"
    /\ Goto("match")
    /\ UNCHANGED inputVars
    /\ UNCHANGED keyVars
    /\ UNCHANGED <<glob_entries, secret_files, file_i,
                   success_count, error_count>>

\* [faulty variant of AfterFile] the loop ends at the first file that failed
AfterFileStopOnError(i) ==
    IF result = "Err" THEN "report"
    ELSE IF i <= Len(secret_files) THEN "reencrypt" ELSE "report"

\* lines 215-223: the loop's next step after a file: the next file, or the report
AfterFile(i) == IF i <= Len(secret_files) THEN "reencrypt" ELSE "report"

\* [faulty variant of MatchResult] a file that failed is tried once more
MatchResultRetriesOnce ==
    /\ pc = "match"
    /\ IF result = "Err" /\ sops_runs[File].decrypt < 2
       THEN /\ Goto("reencrypt")
            /\ UNCHANGED <<file_i, success_count, error_count>>
       ELSE /\ IF result = "Ok"
               THEN /\ success_count' = success_count + 1
                    /\ UNCHANGED error_count
               ELSE /\ error_count' = error_count + 1
                    /\ UNCHANGED success_count
            /\ file_i' = file_i + 1
            /\ Goto(AfterFile(file_i + 1))
    /\ result' = "none"
    /\ UNCHANGED inputVars
    /\ UNCHANGED keyVars
    /\ UNCHANGED <<glob_entries, secret_files, status, disk, sops_runs>>

\* [faulty variant of MatchResult] a failed file is reported and not counted
MatchResultErrNotCounted ==
    /\ pc = "match"
    /\ IF result = "Ok"
       THEN /\ success_count' = success_count + 1
            /\ UNCHANGED error_count
       ELSE UNCHANGED <<success_count, error_count>>
    /\ result' = "none"
    /\ file_i' = file_i + 1
    /\ Goto(AfterFile(file_i + 1))
    /\ UNCHANGED inputVars
    /\ UNCHANGED keyVars
    /\ UNCHANGED <<glob_entries, secret_files, status, disk, sops_runs>>

\* lines 216-222: count the result and go on with the next file
MatchResult ==
    /\ pc = "match"
    /\ IF result = "Ok"
       THEN /\ success_count' = success_count + 1
            /\ UNCHANGED error_count
       ELSE /\ error_count' = error_count + 1
            /\ UNCHANGED success_count
    /\ result' = "none"
    /\ file_i' = file_i + 1
    /\ Goto(AfterFile(file_i + 1))
    /\ UNCHANGED inputVars
    /\ UNCHANGED keyVars
    /\ UNCHANGED <<glob_entries, secret_files, status, disk, sops_runs>>

\* [faulty variant of ExitCode] one failed file is let through
ExitCodeOneTolerated(errors) == IF errors > 1 THEN 1 ELSE 0

\* lines 225-232: the tally; exit(1) when a file failed
ExitCode(errors) == IF errors > 0 THEN 1 ELSE 0

\* [faulty variant of Report] the report removes the imported keys again
ReportPurgesKeys ==
    /\ pc = "report"
    /\ pc' = "exit"
    /\ exit_code' = ExitCode(error_count)
    /\ trust_store' = {}
    /\ UNCHANGED err
    /\ UNCHANGED inputVars
    /\ UNCHANGED <<key_str, import_output, gpg_home_files, public_keys, idx, warnings>>
    /\ UNCHANGED fileVars

Report ==
    /\ pc = "report"
    /\ pc' = "exit"
    /\ exit_code' = ExitCode(error_count)
    /\ UNCHANGED err
    /\ UNCHANGED inputVars
    /\ UNCHANGED keyVars
    /\ UNCHANGED fileVars

Next ==
    \/ ReadPrivateKey
    \/ ReadInputs
    \/ CreateGpgHome
    \/ DecodePrivateKey
    \/ WritePrivateKey
    \/ ImportPrivateKey
    \/ CheckPrivateImport
    \/ CollectPublicKeys
    \/ DecodeKeyStep
    \/ WriteKeyStep
    \/ ImportKeyStep
    \/ CheckKeyImport
    \/ KeysDone
    \/ FindSecretFiles
    \/ InvokeDecrypt
    \/ DecryptReturns
    \/ InvokeEncrypt
    \/ EncryptReturns
    \/ MatchResult
    \/ Report

Spec == Init /\ [][Next]_vars

\* main is one sequential thread of control: as long as it has a next step it
\* takes it, given that every gpg and sops it waits for returns.
FairSpec == Spec /\ WF_vars(Next)

\* ------------------------------------------------------------ properties
Terminal == {"VerifyFailed", "CommitFailed", "Committed"}
Failed == {"VerifyFailed", "CommitFailed"}

Located == DOMAIN status

\* main's loop over the secret files has run to its end
LoopEnded == pc = "report" \/ (pc = "exit" /\ err = "" /\ secret_files # <<>>)

\* no sops command has been run on a secret file and none has changed
NoFileTouched ==
    \A p \in Located :
        status[p] = "Pending" /\ sops_runs[p] = NotRun /\ disk[p] = "original"

KeyPhasePcs == {"key_decode", "key_write", "key_import", "key_check", "keys_done"}
FilePhasePcs == {"reencrypt", "decrypt", "verified", "encrypt", "match", "report"}

\* C1: a file that fails, in sops -d or in sops -e -i, does not end the loop:
\* the files before the one in hand are all in a terminal state, and once the
\* loop has ended every located file has had sops -d run on it and is in a
\* terminal state.
C1_BulkheadIsolation ==
    /\ pc \in FilePhasePcs =>
        \A j \in 1..Len(secret_files) :
            j < file_i => status[secret_files[j]] \in Terminal
    /\ LoopEnded =>
        \A p \in Located :
            status[p] \in Terminal /\ sops_runs[p].decrypt = 1

\* a failed file (in either phase) is followed by a file that was verified
C1_Witness ==
    /\ pc = "report"
    /\ Len(secret_files) >= 2
    /\ status[secret_files[1]] \in Failed
    /\ sops_runs[secret_files[2]].decrypt_output # "none"

\* C2: sops -e -i is run on a file only after its sops -d succeeded; a file
\* whose sops -d failed never has sops -e -i run on it and is on disk what it
\* was before the run.
C2_VerifyBeforeCommit ==
    \A p \in Located :
        /\ sops_runs[p].encrypt > 0 => sops_runs[p].decrypt_output = "success"
        /\ sops_runs[p].decrypt_output \in {"failure", "spawn_error"} =>
              sops_runs[p].encrypt = 0 /\ disk[p] = "original"

\* the run is over, one file failed verification and another was committed
C2_Witness ==
    /\ pc = "exit"
    /\ \E p, q \in Located :
        /\ sops_runs[p].decrypt_output = "failure"
        /\ status[q] = "Committed"

\* C3: after the loop the exit status is 0 exactly when every located file is
\* Committed, and a Committed file is re-encrypted on disk whatever happens to
\* the other files.
C3_BatchOutcome ==
    /\ (pc = "exit" /\ LoopEnded) =>
        (exit_code = 0 <=> \A p \in Located : status[p] = "Committed")
    /\ \A p \in Located : status[p] = "Committed" => disk[p] = "reencrypted"

\* a run that ends with status 1 and a committed file before a failed one
C3_Witness ==
    /\ pc = "exit"
    /\ exit_code = 1
    /\ Len(secret_files) >= 2
    /\ status[secret_files[1]] = "Committed"
    /\ disk[secret_files[1]] = "reencrypted"
    /\ status[secret_files[2]] \in Failed

\* errors of the private key: missing, not decodable, not importable
PrimaryErrors ==
    {"INPUT_PRIVATE_KEY environment variable required",
     "Failed to decode private key",
     "Failed to convert private key to string",
     "Failed to import private key",
     "Failed to import private key: <stderr>"}

\* errors of decoding a public key in import_gpg_keys
KeyDecodeErrors == {"Failed to decode GPG key", "Failed to convert GPG key to string"}

\* the run ended before find_secret_files returned a list
EndedBeforeFiles ==
    /\ pc = "exit"
    /\ exit_code = 1
    /\ Located = {}
    /\ glob_entries = <<>>
    /\ NoFileTouched

\* where main is once the private key's import has been checked
PastPrimaryPcs == {"collect"} \cup KeyPhasePcs \cup {"find_files"} \cup FilePhasePcs

\* C4 (as claimed): a public key that fails to decode (base64 or UTF-8) is only
\* warned about, so no run ends with a key's decode error.
C4_DecodeFailureIsOnlyWarning ==
    ~(pc = "exit" /\ err \in KeyDecodeErrors)

\* C5: a private key that is missing, does not decode or is rejected by gpg
\* ends the run with status 1 before any secret file is located or touched;
\* main gets past the private key only with that key in the trust store.
C5_PrimaryFailureIsFatal ==
    /\ (pc = "exit" /\ err \in PrimaryErrors) => EndedBeforeFiles
    /\ (pc # "start" /\ private_key = Absent) =>
          pc = "exit" /\ err = "INPUT_PRIVATE_KEY environment variable required"
    /\ private_key \in {NOT_BASE64, NON_UTF8_B64} =>
          \/ pc \in {"read_inputs", "create_dir", "decode_private"}
          \/ EndedBeforeFiles
    /\ (pc = "check_private" /\ import_output = "failure") => "PRIV" \notin trust_store
    /\ (pc \in PastPrimaryPcs \/ Located # {}) =>
          private_key = PRIV_B64 /\ "PRIV" \in trust_store

\* gpg rejected the private key and the run ended there
C5_Witness ==
    /\ pc = "exit"
    /\ err = "Failed to import private key: <stderr>"
    /\ private_key = PRIV_B64
    /\ trust_store = {}

\* C6: a malformed roster and a malformed pattern each end the run with status
\* 1 before any secret file is located or touched, and a malformed roster
\* yields no key list at all.
C6_MalformedRosterOrPatternIsFatal ==
    /\ (pc = "exit" /\ err = "Failed to parse users data") =>
          EndedBeforeFiles /\ public_keys = <<>>
    /\ (pc = "exit" /\ err = "Failed to read glob pattern") => EndedBeforeFiles
    /\ public_keys_json \in MalformedRosters =>
          /\ pc \notin KeyPhasePcs \cup {"find_files"} \cup FilePhasePcs
          /\ public_keys = <<>>
          /\ pc = "exit" => EndedBeforeFiles
    /\ secrets_pattern = BAD_PATTERN =>
          /\ pc \notin FilePhasePcs
          /\ pc = "exit" => EndedBeforeFiles

\* the run ended on a roster whose user lacks a member, after the private key
\* was imported
C6_Witness ==
    /\ pc = "exit"
    /\ err = "Failed to parse users data"
    /\ public_keys_json.kind = "object"
    /\ public_keys_json \in MalformedRosters
    /\ "PRIV" \in trust_store

\* the run ended on the malformed pattern, after the keys were imported
C6_WitnessPattern ==
    /\ pc = "exit"
    /\ err = "Failed to read glob pattern"
    /\ "KEY_A" \in trust_store

\* C7: a public key that decodes and that gpg then rejects is warned about and
\* skipped: the rejection adds nothing to the trust store and ends nothing,
\* the importer goes on with the next key and, after the last one, main goes on
\* to find the secret files; so also when gpg rejects every key.
C7_RejectedKeyIsSkipped ==
    [][/\ (pc = "key_import" /\ import_output' = "failure") =>
            pc' = "key_check" /\ trust_store' = trust_store
       /\ (pc = "key_check" /\ import_output = "failure") =>
            /\ idx' = idx + 1
            /\ warnings' = warnings \cup {idx}
            /\ trust_store' = trust_store
            /\ err' = ""
            /\ pc' = IF idx + 1 < Len(public_keys) THEN "key_decode" ELSE "keys_done"
       /\ pc = "keys_done" => pc' = "find_files" /\ err' = ""]_vars

\* gpg rejected every one of two or more keys, and main is about to look for
\* the secret files
C7_Witness ==
    /\ pc = "keys_done"
    /\ Len(public_keys) >= 2
    /\ warnings = 0..(Len(public_keys) - 1)
    /\ trust_store = {"PRIV"}

\* the keys of the first n users of a roster, counted
RECURSIVE KeyCount(_, _)
KeyCount(users, n) == IF n = 0 THEN 0 ELSE Len(users[n].keys) + KeyCount(users, n - 1)

\* C8: for a well-formed roster the key list holds every user's keys, user by
\* user and within a user in the user's order, then the Flux key when that is
\* not empty; its length is the number of the users' keys, plus one with a
\* Flux key; a key that occurs twice is there twice.
C8_KeyCollectorResult ==
    (pc \in KeyPhasePcs /\ public_keys_json.kind = "object") =>
        LET users == public_keys_json.users
            total == KeyCount(users, Len(users))
        IN  /\ Len(public_keys) = total + (IF flux_key # "" THEN 1 ELSE 0)
            /\ \A u \in 1..Len(users) :
                 \A k \in 1..Len(users[u].keys) :
                    public_keys[KeyCount(users, u - 1) + k] = users[u].keys[k]
            /\ flux_key # "" => public_keys[total + 1] = flux_key

\* two users with one key each, and a Flux key that the first user holds too
C8_Witness ==
    /\ pc = "keys_done"
    /\ public_keys_json.kind = "object"
    /\ Len(public_keys_json.users) = 2
    /\ public_keys = <<KEY_A_B64, KEY_B_B64, KEY_A_B64>>
    /\ flux_key = KEY_A_B64

\* the roster is absent (main's default), or the empty string, or has no users
RosterEmpty == public_keys_json \in {EMPTY_STRING, DEFAULT_ROSTER}

\* C9: an absent or empty roster is no error: the key list is empty when the
\* Flux key is empty too, and is the Flux key alone otherwise; collection
\* never ends the run with a roster error, and the run goes on: straight to
\* finding the secret files with the empty list (nothing is imported), and
\* through the import of that one key otherwise.
C9_EmptyRosterIsNoError ==
    /\ (RosterEmpty /\ pc \in KeyPhasePcs) =>
          public_keys = IF flux_key = "" THEN <<>> ELSE <<flux_key>>
    /\ (RosterEmpty /\ pc \in KeyPhasePcs /\ flux_key = "") =>
          pc = "keys_done" /\ idx = 0 /\ trust_store = {"PRIV"}
    /\ (RosterEmpty /\ pc = "exit") => err # "Failed to parse users data"
    /\ (RosterEmpty /\ pc = "exit" /\ err # "" /\ "PRIV" \in trust_store) =>
          \/ public_keys = <<flux_key>> /\ flux_key # "" /\ idx = 0
          \/ err = "Failed to read glob pattern"

\* the roster is the empty string, the Flux key is the only key, and main is
\* about to look for the secret files
C9_Witness ==
    /\ pc = "keys_done"
    /\ public_keys_json = EMPTY_STRING
    /\ flux_key = KEY_B_B64
    /\ public_keys = <<KEY_B_B64>>
    /\ idx = 1

\* C10: a run that finds no secret file (and so had no fatal error before) ends
\* with status 0, has counted nothing and has run sops on nothing; the loop
\* over the files is entered only with a file.
C10_NoFilesIsSuccess ==
    /\ (pc = "exit" /\ err = "" /\ secret_files = <<>>) =>
          /\ exit_code = 0
          /\ Located = {}
          /\ success_count = 0 /\ error_count = 0
    /\ pc \in FilePhasePcs => secret_files # <<>>

\* the pattern matched, though nothing that is a file, and the run is over
C10_Witness ==
    /\ pc = "exit"
    /\ err = ""
    /\ secret_files = <<>>
    /\ glob_entries # <<>>
    /\ exit_code = 0

\* the files of the GPG home that hold a key gpg has imported from them
ImportedKeyFiles ==
    {n \in DOMAIN gpg_home_files : gpg_home_files[n] \in trust_store}

\* C11 (as claimed): when the process has ended, no file of the GPG home holds
\* the decoded text of a key that its import has consumed.
C11_KeyMaterialNotPersisted ==
    pc = "exit" => ImportedKeyFiles = {}

\* where main is when it runs gpg --import
ImportPcs == {"import_private", "key_import"}

\* C12: the trust store changes only in a step that runs gpg --import, and
\* such a step only adds to it; every gpg --import is run before the secret
\* files are located, so before the first sops -d; from find_secret_files on,
\* no step changes the trust store.
C12_TrustStoreWrittenOnlyByImport ==
    [][/\ trust_store' # trust_store =>
            pc \in ImportPcs /\ trust_store \subseteq trust_store'
       /\ pc \in ImportPcs => Located = {} /\ glob_entries = <<>>
       /\ (pc \in ImportPcs /\ pc' # "exit") => pc' \notin FilePhasePcs
       /\ pc \in {"find_files"} \cup FilePhasePcs => trust_store' = trust_store]_vars

\* the loop is over, a file was re-encrypted, and the trust store holds the
\* private key and a public key
C12_Witness ==
    /\ pc = "exit"
    /\ LoopEnded
    /\ {"PRIV", "KEY_A"} \subseteq trust_store
    /\ \E p \in Located : status[p] = "Committed"

\* the decoded text of the public keys import_gpg_keys has gone through (those
\* with an index below idx) and gpg accepted
AcceptedKeys ==
    {Base64Decode(public_keys[i + 1]).val : i \in (0..(idx - 1)) \ warnings}

C14_FileLocatorResult ==
    /\ \A k \in 1..Len(secret_files) :
          /\ secret_files[k] \in 1..Len(glob_entries)
          /\ glob_entries[secret_files[k]] = "file"
    /\ \A i \in 1..Len(glob_entries) :
          glob_entries[i] = "file" <=> \E k \in 1..Len(secret_files) : secret_files[k] = i
    /\ \A k, l \in 1..Len(secret_files) : k < l => secret_files[k] < secret_files[l]
    /\ glob_entries # <<>> =>
          /\ err = ""
          /\ secrets_pattern = DEFAULT_PATTERN
          /\ Located = Paths(secret_files)

\* the first match gave an error, the second is a file: that file was found
\* and re-encrypted
C14_Witness ==
    /\ glob_entries = <<"error", "file">>
    /\ secret_files = <<2>>
    /\ pc = "exit"
    /\ status[2] = "Committed"

\* the moves of a file's state
FileMoves ==
    {<<"Pending", "Verifying">>,
     <<"Verifying", "VerifyFailed">>, <<"Verifying", "Verified">>,
     <<"Verified", "Committing">>,
     <<"Committing", "CommitFailed">>, <<"Committing", "Committed">>}

\* C15: a located file's state changes only by one of the moves Pending ->
\* Verifying -> (VerifyFailed | Verified), Verified -> Committing ->
\* (CommitFailed | Committed); a file in VerifyFailed, CommitFailed or
\* Committed stays there; sops -d is run exactly on the move to Verifying and
\* sops -e -i exactly on the move to Committing, so each at most once per file.
C15_PerFileStateMachine ==
    [][\A p \in Located :
        /\ p \in DOMAIN status'
        /\ status'[p] # status[p] => <<status[p], status'[p]>> \in FileMoves
        /\ status[p] \in Terminal => status'[p] = status[p]
        /\ sops_runs'[p].decrypt =
              sops_runs[p].decrypt + (IF status'[p] # status[p] /\ status'[p] = "Verifying"
                                      THEN 1 ELSE 0)
        /\ sops_runs'[p].encrypt =
              sops_runs[p].encrypt + (IF status'[p] # status[p] /\ status'[p] = "Committing"
                                      THEN 1 ELSE 0)
        /\ sops_runs'[p].decrypt <= 1
        /\ sops_runs'[p].encrypt <= 1]_vars

\* the run is over: one file failed in sops -e -i and one in sops -d, each
\* after one run of the command
C15_Witness ==
    /\ pc = "exit"
    /\ \E p, q \in Located :
        /\ status[p] = "CommitFailed"
        /\ sops_runs[p].decrypt = 1 /\ sops_runs[p].encrypt = 1
        /\ status[q] = "VerifyFailed"
        /\ sops_runs[q].decrypt = 1 /\ sops_runs[q].encrypt = 0

\* the states of a file that sops is being, or is about to be, run on
InHand == {"Verifying", "Verified", "Committing"}

\* C16: the files are gone through one at a time in the order of the list of
\* find_secret_files: at most one file is in Verifying, Verified or
\* Committing, and it is the file the loop is at; the files before it in the
\* list are terminal and the files after it are Pending.
C16_SequentialInListOrder ==
    /\ Cardinality({p \in Located : status[p] \in InHand}) <= 1
    /\ \A j, k \in 1..Len(secret_files) :
          (j < k /\ status[secret_files[k]] # "Pending") =>
              status[secret_files[j]] \in Terminal
    /\ \A k \in 1..Len(secret_files) :
          status[secret_files[k]] \in InHand =>
              k = file_i /\ pc \in {"decrypt", "verified", "encrypt"}

\* sops -e -i is running on the second of two files, the first has failed
C16_Witness ==
    /\ pc = "encrypt"
    /\ Len(secret_files) = 2
    /\ status[secret_files[1]] \in Failed
    /\ status[secret_files[2]] = "Committing"

\* the number of located files in one of the states
CountIn(states) == Cardinality({p \in Located : status[p] \in states})

\* the files main's loop has counted: those before the one it is at
Counted == {secret_files[k] : k \in 1..(file_i - 1)}

\* C17: every located file adds one to exactly one of the two counts. During
\* the loop the counts hold the files before the one the loop is at:
\* success_count those that are Committed, error_count those that are
\* VerifyFailed or CommitFailed; these are all the terminal files, but for the
\* file whose result is just being matched. After the loop success_count is
\* the number of Committed files, error_count the number of VerifyFailed and
\* CommitFailed files, and their sum the length of the list.
C17_TallyAccounting ==
    /\ pc \in FilePhasePcs =>
          /\ success_count = Cardinality({p \in Counted : status[p] = "Committed"})
          /\ error_count = Cardinality({p \in Counted : status[p] \in Failed})
          /\ success_count + error_count = file_i - 1
          /\ success_count + error_count =
                CountIn(Terminal) - (IF pc = "match" THEN 1 ELSE 0)
    /\ LoopEnded =>
          /\ success_count = CountIn({"Committed"})
          /\ error_count = CountIn(Failed)
          /\ success_count + error_count = Len(secret_files)
    /\ ~(pc \in FilePhasePcs \/ LoopEnded) => success_count = 0 /\ error_count = 0

\* the run is over with one file counted as a success and one as a failure
C17_Witness ==
    /\ pc = "exit"
    /\ LoopEnded
    /\ Len(secret_files) = 2
    /\ success_count = 1
    /\ error_count = 1

\* a public key has been collected, written to a file, handed to gpg or
\* imported
NonPrimaryKeyHandled ==
    \/ public_keys # <<>>
    \/ pc \in KeyPhasePcs
    \/ DOMAIN gpg_home_files \ {"private_key.asc"} # {}
    \/ trust_store \ {"PRIV"} # {}

\* C18: the private key is imported before any public key is collected or
\* imported: while main reads, writes and imports the private key no public
\* key has been collected and the trust store holds nothing else, and whenever
\* a public key has been collected, handed to gpg or imported, the private
\* key is in the trust store.
C18_PrimaryFirst ==
    /\ pc \in {"start", "read_inputs", "create_dir", "decode_private",
                "write_private", "import_private", "check_private"} =>
          ~NonPrimaryKeyHandled
    /\ NonPrimaryKeyHandled =>
          /\ "PRIV" \in trust_store
          /\ "private_key.asc" \in DOMAIN gpg_home_files
          /\ gpg_home_files["private_key.asc"] = "PRIV"

\* gpg has just accepted the second public key; the private key and that key
\* are in the trust store
C18_Witness ==
    /\ pc = "key_check"
    /\ idx = 1
    /\ import_output = "success"
    /\ {"PRIV", "KEY_B"} \subseteq trust_store

\* the run is over and every located file is in a terminal state
BatchCompleted ==
    /\ pc = "exit"
    /\ err = ""
    /\ \A p \in Located : status[p] \in Terminal

\* C19: with every gpg and sops returning, every run ends: with an error
\* before any secret file was located, or with every located file in a
\* terminal state; no run stays for ever with a file in Verifying, Verified or
\* Committing.
C19_Termination == <>(EndedBeforeFiles \/ BatchCompleted)

\* the run is over, with two files that both went through sops -d and
\* sops -e -i
C19_Witness ==
    /\ BatchCompleted
    /\ Len(secret_files) = 2
    /\ \A p \in Located : sops_runs[p].encrypt_output # "none"

\* the errors import_gpg_keys returns
ImportKeysErrors ==
    KeyDecodeErrors \cup {"Failed to write GPG key", "Failed to import GPG key"}

\* C20: a step that ends the run with an error after the private key's import
\* leaves the trust store as it is, with the private key in it, and no secret
\* file has been located or touched. When the error comes from import_gpg_keys
\* at key index idx, the trust store is the private key and the accepted keys
\* with an index below idx; on a malformed roster it is the private key alone;
\* import_gpg_keys returns to main with every accepted key in the trust store,
\* and a malformed pattern, found after that, leaves them there.
C20_AbortKeepsImportedKeys ==
    [][/\ (pc \in PastPrimaryPcs /\ pc' = "exit" /\ err' # "") =>
            /\ pc \in {"collect", "key_decode", "key_write", "key_import", "find_files"}
            /\ trust_store' = trust_store
            /\ "PRIV" \in trust_store'
            /\ EndedBeforeFiles'
       /\ (pc' = "exit" /\ err' = "Failed to parse users data") =>
            pc = "collect" /\ trust_store' = {"PRIV"}
       /\ (pc' = "exit" /\ err' \in ImportKeysErrors) =>
            /\ pc \in {"key_decode", "key_write", "key_import"}
            /\ idx < Len(public_keys)
            /\ idx' = idx
            /\ trust_store' = {"PRIV"} \cup AcceptedKeys
       /\ pc = "keys_done" =>
            /\ trust_store' = trust_store
            /\ trust_store = {"PRIV"} \cup AcceptedKeys
            /\ idx = Len(public_keys)
       /\ (pc' = "exit" /\ err' = "Failed to read glob pattern") =>
            pc = "find_files" /\ trust_store' = trust_store]_vars

\* the second public key could not be decoded: the run ended with the private
\* key and the first public key in the trust store
C20_Witness ==
    /\ pc = "exit"
    /\ err \in KeyDecodeErrors
    /\ idx = 1
    /\ warnings = {}
    /\ trust_store = {"PRIV", "KEY_A"}
    /\ Located = {}

====
